---------------------------- MODULE Spec2Model ----------------------------
(***************************************************************************)
(* Model of src/main.ino: simulated absorbance sensors derived from one    *)
(* physical light sensor (Arduino Uno, AVR core).                          *)
(*                                                                         *)
(* Numbers.  A C float is modelled as a record: a finite fixed-point value *)
(* with FP units per 1.0 ([c |-> "fin", v |-> n] stands for n / FP), or    *)
(* one of the IEEE-754 special values NaN, +Inf, -Inf.  Comparisons and    *)
(* arithmetic follow IEEE-754 on the special values (every comparison      *)
(* with NaN is false, x/0 is an infinity, 0/0 is NaN).  Finite results     *)
(* are truncated to the fixed-point grid.                                  *)
(*                                                                         *)
(* Arduino.h (AVR core) defines min, max, abs and round as macros:         *)
(*     min(a,b)  ((a)<(b)?(a):(b))       max(a,b)  ((a)>(b)?(a):(b))       *)
(*     abs(x)    ((x)>0?(x):-(x))                                          *)
(*     round(x)  ((x)>=0?(long)((x)+0.5):(long)((x)-0.5))                  *)
(* The model expands them as the preprocessor does, so an argument with a  *)
(* side effect (a call of rand()) is evaluated once per occurrence.        *)
(***************************************************************************)
EXTENDS Integers, Sequences, FiniteSets, TLC

(* Fixed-point units per 1.0 of a modelled float. *)
FP == 1000

(***************************************************************************)
(* float values and IEEE-754 arithmetic                                    *)
(***************************************************************************)
F(n) == [c |-> "fin", v |-> n]
NaN == [c |-> "nan", v |-> 0]
PInf == [c |-> "inf", v |-> 1]
NInf == [c |-> "inf", v |-> -1]

(* An int converted to float. *)
IntToFloat(n) == F(n * FP)

IsNaN(x) == x.c = "nan"
IsFin(x) == x.c = "fin"
IsInf(x) == x.c = "inf"

(* -1, 0 or 1: the sign of a value that is not NaN. *)
Sgn(x) == IF x.v > 0 THEN 1 ELSE IF x.v < 0 THEN -1 ELSE 0

AbsInt(n) == IF n < 0 THEN -n ELSE n

(* Integer division truncating toward zero, as C's / on integers. *)
TDiv(a, b) ==
    LET q == AbsInt(a) \div AbsInt(b)
    IN IF (a < 0) = (b < 0) THEN q ELSE -q

(* a * b / d truncated toward zero, without overflowing on a * b. *)
MulDiv(a, b, d) ==
    LET aa == AbsInt(a)
        bb == AbsInt(b)
        q == (aa \div d) * bb + ((aa % d) * bb) \div d
    IN IF (a < 0) = (b < 0) THEN q ELSE -q

RECURSIVE GCD(_, _)
GCD(a, b) == IF b = 0 THEN a ELSE GCD(b, a % b)

(* a < b on floats. *)
FLt(a, b) ==
    IF IsNaN(a) \/ IsNaN(b) THEN FALSE
    ELSE IF IsInf(a) THEN a.v < 0 /\ b # NInf
    ELSE IF IsInf(b) THEN b.v > 0
    ELSE a.v < b.v

FGt(a, b) == FLt(b, a)

(* a >= b on floats. *)
FGe(a, b) == ~IsNaN(a) /\ ~IsNaN(b) /\ ~FLt(a, b)

FNeg(a) ==
    IF IsNaN(a) THEN NaN
    ELSE IF IsInf(a) THEN (IF a.v > 0 THEN NInf ELSE PInf)
    ELSE F(-a.v)

FAdd(a, b) ==
    IF IsNaN(a) \/ IsNaN(b) THEN NaN
    ELSE IF IsInf(a) /\ IsInf(b) THEN (IF a = b THEN a ELSE NaN)
    ELSE IF IsInf(a) THEN a
    ELSE IF IsInf(b) THEN b
    ELSE F(a.v + b.v)

FSub(a, b) == FAdd(a, FNeg(b))

FMul(a, b) ==
    IF IsNaN(a) \/ IsNaN(b) THEN NaN
    ELSE IF IsInf(a) \/ IsInf(b)
         THEN (IF Sgn(a) * Sgn(b) = 0 THEN NaN
               ELSE IF Sgn(a) * Sgn(b) > 0 THEN PInf ELSE NInf)
    ELSE F(MulDiv(a.v, b.v, FP))

FDiv(a, b) ==
    IF IsNaN(a) \/ IsNaN(b) THEN NaN
    ELSE IF IsInf(a) /\ IsInf(b) THEN NaN
    ELSE IF IsInf(a) THEN (IF Sgn(a) * (IF b.v < 0 THEN -1 ELSE 1) > 0 THEN PInf ELSE NInf)
    ELSE IF IsInf(b) THEN F(0)
    ELSE IF b.v = 0
         THEN (IF a.v = 0 THEN NaN ELSE IF a.v > 0 THEN PInf ELSE NInf)
    ELSE LET g == GCD(AbsInt(a.v), AbsInt(b.v))
             q == MulDiv(AbsInt(a.v) \div g, FP, AbsInt(b.v) \div g)
         IN F(IF (a.v < 0) = (b.v < 0) THEN q ELSE -q)

(* Arduino.h: #define min(a,b) ((a)<(b)?(a):(b)) *)
MinMacro(a, b) == IF FLt(a, b) THEN a ELSE b

(* Arduino.h: #define max(a,b) ((a)>(b)?(a):(b)) *)
MaxMacro(a, b) == IF FGt(a, b) THEN a ELSE b

(* log10(1), log10(2), ..., log10(10), in units of 1 / LogUnit. *)
LogUnit == 100000
Log10Tab == <<0, 30103, 47712, 60206, 69897, 77815, 84510, 90309, 95424, 100000>>

(***************************************************************************)
(* log10 of the positive fixed-point value r, in fixed point: the decade   *)
(* is found by scaling r into [1, 10), the rest by linear interpolation    *)
(* between the logarithms of the integers 1..10.  Non-decreasing in r,     *)
(* 0 at 1.0, negative below 1.0.                                           *)
(***************************************************************************)
RECURSIVE Log10Fix(_)
Log10Fix(r) ==
    IF r >= 10 * FP THEN FP + Log10Fix(r \div 10)
    ELSE IF r < FP THEN Log10Fix(r * 10) - FP
    ELSE LET d == r \div FP
             lg == Log10Tab[d] + ((Log10Tab[d + 1] - Log10Tab[d]) * (r % FP)) \div FP
         IN (lg * FP) \div LogUnit

(* libm log10f on the modelled floats. *)
log10f(x) ==
    IF IsNaN(x) THEN NaN
    ELSE IF IsInf(x) THEN (IF x.v > 0 THEN PInf ELSE NaN)
    ELSE IF x.v = 0 THEN NInf
    ELSE IF x.v < 0 THEN NaN
    ELSE F(Log10Fix(x.v))

RECURSIVE Pow10(_)
Pow10(e) == IF e = 0 THEN 1 ELSE 10 * Pow10(e - 1)

(* 10^(y / FP) in fixed point: the inverse of Log10Fix. *)
Exp10Fix(y) ==
    LET e == y \div FP
        f == ((y % FP) * LogUnit) \div FP
        d == CHOOSE k \in 1..9 : Log10Tab[k] <= f /\ f < Log10Tab[k + 1]
        m == d * FP + ((f - Log10Tab[d]) * FP) \div (Log10Tab[d + 1] - Log10Tab[d])
    IN IF e >= 0 THEN m * Pow10(e) ELSE m \div Pow10(-e)

(* x^n for an integer n >= 0, by repeated float multiplication. *)
RECURSIVE IntPow(_, _)
IntPow(x, n) == IF n = 0 THEN F(FP) ELSE FMul(x, IntPow(x, n - 1))

(***************************************************************************)
(* libm pow(x, y) for a finite exponent y, with the C99 special cases:     *)
(* pow(x, 0) = 1 and pow(1, y) = 1 even for NaN; NaN otherwise propagates; *)
(* pow(0, y>0) = 0; pow(+Inf, y>0) = +Inf; a negative base with a          *)
(* non-integer exponent is NaN.  An integer exponent is computed by        *)
(* multiplication, any other as 10^(y * log10 x).                          *)
(***************************************************************************)
pow(x, y) ==
    LET isInt == y.v % FP = 0
        n == AbsInt(y.v) \div FP
        odd == isInt /\ n % 2 = 1
    IN IF y.v = 0 THEN F(FP)
       ELSE IF x = F(FP) THEN F(FP)
       ELSE IF IsNaN(x) THEN NaN
       ELSE IF x = PInf THEN (IF y.v > 0 THEN PInf ELSE F(0))
       ELSE IF x = NInf THEN (IF y.v < 0 THEN F(0) ELSE IF odd THEN NInf ELSE PInf)
       ELSE IF x.v = 0 THEN (IF y.v > 0 THEN F(0) ELSE PInf)
       ELSE IF isInt
            THEN (IF y.v > 0 THEN IntPow(x, n) ELSE FDiv(F(FP), IntPow(x, n)))
       ELSE IF x.v < 0 THEN NaN
       ELSE F(Exp10Fix(MulDiv(y.v, Log10Fix(x.v), FP)))

(***************************************************************************)
(* Program constants                                                       *)
(***************************************************************************)
POWER_LAW_CORRECTOR_GAMMA == F((666 * FP) \div 1000)
POWER_LAW_CORRECTOR_C == F(FP)
MAX_A == 2
UINT8_MAX == 255
to_byte == FDiv(IntToFloat(UINT8_MAX), IntToFloat(MAX_A))
simulation_dt_ms == 25
MAX_MEMORY_SIZE == 50
RAND_MAX == 32767
(* Number of raw reads averaged for each calibration level in setup(). *)
CalibrationReads == 256

(***************************************************************************)
(* Integer conversions                                                     *)
(***************************************************************************)
(* (long) x of a float: truncation toward zero.  Converting NaN, an        *)
(* infinity or a value out of range is undefined: ub is the value the      *)
(* build then produces.                                                    *)
CastLong(x, ub) == IF IsFin(x) THEN TDiv(x.v, FP) ELSE ub

(* Arduino.h: #define round(x) ((x)>=0?(long)((x)+0.5):(long)((x)-0.5)) *)
RoundMacro(x, ub) ==
    IF FGe(x, F(0)) THEN CastLong(FAdd(x, F(FP \div 2)), ub)
    ELSE CastLong(FSub(x, F(FP \div 2)), ub)

(* (size_t) of a long on the AVR: 16 bits, modulo 2^16. *)
CastSizeT(n) == n % 65536

(* uint8_t of a long: modulo 2^8. *)
CastUint8(n) == n % 256

(***************************************************************************)
(* unsigned long (32 bits), kept as two 16-bit halves                      *)
(***************************************************************************)
HalfWord == 65536
U32(h, l) == [hi |-> h, lo |-> l]

(* x + d modulo 2^32, for 0 <= d < 2^16. *)
U32Add(x, d) ==
    LET l == x.lo + d
    IN U32((x.hi + l \div HalfWord) % HalfWord, l % HalfWord)

(* y - x modulo 2^32. *)
U32Diff(x, y) ==
    LET borrow == IF y.lo < x.lo THEN 1 ELSE 0
    IN U32((y.hi - x.hi - borrow) % HalfWord, (y.lo - x.lo) % HalfWord)

(* x < y on unsigned long. *)
U32Lt(x, y) == x.hi < y.hi \/ (x.hi = y.hi /\ x.lo < y.lo)

(***************************************************************************)
(* Simulated sensors                                                       *)
(***************************************************************************)
MinInt(a, b) == IF a < b THEN a ELSE b

(* Faulty variant of ZeroMemory: the array left as a previous use filled it. *)
StaleMemory == [k \in 0 .. MAX_MEMORY_SIZE - 1 |-> UINT8_MAX]

ZeroMemory == [k \in 0 .. MAX_MEMORY_SIZE - 1 |-> 0]

(* Faulty variant of MemorySize: the size without the cap. *)
MemorySizeUncapped(response_time_ms, ub) ==
    CastSizeT(RoundMacro(FDiv(response_time_ms, IntToFloat(simulation_dt_ms)), ub))

(* memory_size{min((size_t) round(response_time_ms / simulation_dt_ms),    *)
(*                 MAX_MEMORY_SIZE)}                                       *)
MemorySize(response_time_ms, ub) ==
    MinInt(CastSizeT(RoundMacro(FDiv(response_time_ms, IntToFloat(simulation_dt_ms)), ub)),
           MAX_MEMORY_SIZE)

(* The constructor: memory = { 0 }. *)
SimulatedSensor(response_time_ms, background, alpha, gamma, sigma, ub) ==
    [memory_size |-> MemorySize(response_time_ms, ub),
     background |-> background,
     alpha |-> alpha,
     gamma |-> gamma,
     sigma |-> sigma,
     memory |-> ZeroMemory]

(* A decimal literal n / 100 as a float. *)
Cents(n) == F((n * FP) \div 100)

(* SimulatedSensor sensors[] = { ... } *)
sensors_table ==
    [k \in 0 .. 3 |->
        CASE k = 0 -> SimulatedSensor(IntToFloat(3), Cents(4), Cents(300), Cents(100), Cents(20), 0)
          [] k = 1 -> SimulatedSensor(IntToFloat(400), Cents(2), Cents(75), Cents(100), Cents(3), 0)
          [] k = 2 -> SimulatedSensor(IntToFloat(0), Cents(3), Cents(50), Cents(100), Cents(3), 0)
          [] k = 3 -> SimulatedSensor(IntToFloat(100), Cents(33), Cents(75), Cents(200), Cents(1), 0)]

(***************************************************************************)
(* avr-libc rand(): next = 16807 * next mod (2^31 - 1), computed without   *)
(* overflow as 16807 * (next % 127773) - 2836 * (next / 127773), a state   *)
(* of 0 being replaced by 123459876; the value returned is the new state   *)
(* modulo RAND_MAX + 1.  random() is the same generator with a state of    *)
(* its own.  Both states start at 1.                                       *)
(***************************************************************************)
RAND_MODULUS == 2147483647

RandStep(next) ==
    LET x == IF next = 0 THEN 123459876 ELSE next
        t == 16807 * (x % 127773) - 2836 * (x \div 127773)
    IN IF t < 0 THEN t + RAND_MODULUS ELSE t

(* The value rand() returns when it leaves the state next. *)
RandValue(next) == next % (RAND_MAX + 1)

(* uniform(sigma) when rand() returns r. *)
uniform(sigma, r) ==
    FMul(FSub(FDiv(IntToFloat(r), IntToFloat(RAND_MAX)), F(FP \div 2)), sigma)

(* abs(uniform(sigma)): the macro ((x)>0?(x):-(x)) calls uniform twice;    *)
(* r1 is the draw of the test, r2 the draw of the value.                   *)
AbsUniform(sigma, r1, r2) ==
    IF FGt(uniform(sigma, r1), F(0)) THEN uniform(sigma, r2)
    ELSE FNeg(uniform(sigma, r2))

(* pow(real_A, gamma) * alpha *)
BaseValue(s, real_A) == FMul(pow(real_A, s.gamma), s.alpha)

(* Slots read by: for (i = 0; i < memory_size; i++) acc += memory[i]/to_byte *)
SumSlots(s) == 0 .. s.memory_size - 1

(* Slots written by: for (i = 0; i < memory_size-1; i++) memory[i] = memory[i+1] *)
ShiftSlots(s) == 0 .. s.memory_size - 2

(* memory[k]; a read past the array is undefined and modelled as 0. *)
Mem(memory, k) == IF k \in DOMAIN memory THEN memory[k] ELSE 0

(* acc: the sum of memory[k]/to_byte over the slots lo..hi that the loop  *)
(* visits.  The halves are summed separately to bound the recursion depth; *)
(* fixed-point addition is exact, so the order does not change the sum.    *)
RECURSIVE MemorySum(_, _, _)
MemorySum(s, lo, hi) ==
    IF lo > hi THEN F(0)
    ELSE IF lo = hi
         THEN (IF lo \in SumSlots(s)
               THEN FDiv(IntToFloat(Mem(s.memory, lo)), to_byte)
               ELSE F(0))
    ELSE LET mid == (lo + hi) \div 2
         IN FAdd(MemorySum(s, lo, mid), MemorySum(s, mid + 1, hi))

(* float acc = 0; for (...) acc += (float) memory[i]/to_byte; *)
Acc(s) == MemorySum(s, 0, s.memory_size)

(* Faulty variant of Smoothed: the sum divided by memory_size. *)
SmoothedByN(s, acc, real_A) ==
    IF s.memory_size >= 1
    THEN FDiv(FAdd(acc, BaseValue(s, real_A)), IntToFloat(s.memory_size))
    ELSE BaseValue(s, real_A)

(* Faulty variant of Smoothed: the sum left undivided. *)
SmoothedUndivided(s, acc, real_A) ==
    IF s.memory_size >= 1
    THEN FAdd(acc, BaseValue(s, real_A))
    ELSE BaseValue(s, real_A)

(* Response-time smoothing, acc being the sum of the stored history. *)
Smoothed(s, acc, real_A) ==
    IF s.memory_size >= 1
    THEN FDiv(FAdd(acc, BaseValue(s, real_A)), IntToFloat(s.memory_size + 1))
    ELSE BaseValue(s, real_A)

(* Background floor. *)
Floored(s, x) == IF FLt(x, s.background) THEN s.background ELSE x

(* Faulty variant of Noised: the floor applied after the noise is added. *)
NoisedThenFloored(s, acc, real_A, r1, r2) ==
    Floored(s, FAdd(Smoothed(s, acc, real_A), AbsUniform(s.sigma, r1, r2)))

(* The value before the conversion to a byte. *)
Noised(s, acc, real_A, r1, r2) ==
    FAdd(Floored(s, Smoothed(s, acc, real_A)), AbsUniform(s.sigma, r1, r2))

(* Faulty variant of ToByte: the cast without the clamp, which wraps. *)
ToByteUnclamped(x) == CastUint8(RoundMacro(FMul(x, to_byte), 0))

(* (uint8_t) round(max(0, min(x*to_byte, UINT8_MAX))) *)
ToByte(x) ==
    CastUint8(RoundMacro(MaxMacro(F(0), MinMacro(FMul(x, to_byte), IntToFloat(UINT8_MAX))), 0))

(* Faulty variant of ShiftMemory: the new byte stored without the shift. *)
ShiftMemoryStoreOnly(s, byte) ==
    IF s.memory_size >= 1
    THEN [s.memory EXCEPT ![s.memory_size - 1] = byte]
    ELSE s.memory

(* Shift memory buffer and store new output. *)
ShiftMemory(s, byte) ==
    IF s.memory_size >= 1
    THEN [k \in DOMAIN s.memory |->
            IF k \in ShiftSlots(s) THEN Mem(s.memory, k + 1)
            ELSE IF k = s.memory_size - 1 THEN byte
            ELSE s.memory[k]]
    ELSE s.memory

(* update(real_A) on sensor s whose history sums to acc, rand() returning  *)
(* r1 then r2: the byte returned and the sensor afterwards.                *)
update(s, acc, real_A, r1, r2) ==
    LET value == Noised(s, acc, real_A, r1, r2)
        simulated_byte_output == ToByte(value)
    IN [out |-> simulated_byte_output,
        value |-> value,
        sensor |-> [s EXCEPT !.memory = ShiftMemory(s, simulated_byte_output)]]

(***************************************************************************)
(* The history of update() kept as a bounded queue that starts empty: q is *)
(* the sequence of the stored bytes, oldest first.                         *)
(***************************************************************************)
(* acc: the sum of q[j]/to_byte over the stored bytes, oldest first. *)
RECURSIVE BoundedFifoSum(_)
BoundedFifoSum(q) ==
    IF q = <<>> THEN F(0)
    ELSE FAdd(BoundedFifoSum(SubSeq(q, 1, Len(q) - 1)),
              FDiv(IntToFloat(q[Len(q)]), to_byte))

(* The queue after byte is stored: the oldest entry leaves only when the   *)
(* queue holds memory_size entries.                                        *)
BoundedFifoPush(s, q, byte) ==
    IF s.memory_size >= 1
    THEN (IF Len(q) >= s.memory_size THEN Append(Tail(q), byte)
          ELSE Append(q, byte))
    ELSE q

(* update() over the queue q in place of the array. *)
BoundedFifoUpdate(s, q, real_A, r1, r2) ==
    LET byte == ToByte(Noised(s, BoundedFifoSum(q), real_A, r1, r2))
    IN [out |-> byte, fifo |-> BoundedFifoPush(s, q, byte)]

(***************************************************************************)
(* Bounds of the model and the inputs drawn by the environment             *)
(***************************************************************************)
(* Milliseconds of run time after setup() that are explored. *)
MaxElapsed == 30
(* Raw reads accumulated within one sampling interval that are explored. *)
MaxReads == 2
(* Frames written that are explored. *)
MaxFrames == 2
(* update() calls on the sensor of SensorSpec that are explored. *)
MaxUpdates == 3

(* update() calls on the sensor of StepSpec that are explored. *)
MaxSteps == 6

(* Raw reads accumulated between two drains of AccumulatorSpec. *)
MaxAdds == 3

(* Raw readings added to the accumulator in AccumulatorSpec. *)
Readings == {2, 4, 6, 10}
(* Arguments of physical_to_A in CalibrateSpec: averages of raw reads in    *)
(* the valid operating range 0 < x <= 1023.                                *)
RawAverages ==
    {F(n) : n \in {FP \div 2, FP, 5 * FP, 300 * FP, 900 * FP, 1023 * FP}}
        \cup {F(k * 16 * FP + FP \div 4) : k \in 0 .. 63}
(* Values of physical_full in CalibrateSpec. *)
FullLevels == {IntToFloat(300), IntToFloat(900), IntToFloat(1023)}
(* Values of physical_dark in CalibrateSpec. *)
DarkLevels == {IntToFloat(0), IntToFloat(4), IntToFloat(50)}
(* Sensor readings with the light source off. *)
AmbientLevels == {0, 4}
(* Sensor readings with the light source on, for the samples explored. *)
LitLevels == {0, 740, 900}
(* Advances of the millisecond clock between two loop() calls. *)
ClockSteps == {10, 30}
(* Values of millis() when setup() reads it: 0, and 20 ms or 26 ms before   *)
(* the wrap of the 32-bit counter, which brings the wrap that a run meets  *)
(* after 49.7 days within the explored time.  From the last, nextTick      *)
(* reaches 2^32 - 1.                                                       *)
StartClocks ==
    {U32(0, 0), U32(HalfWord - 1, HalfWord - 20), U32(HalfWord - 1, HalfWord - 26)}
(* Advances of millis() between two reads of it: the counter is raised by  *)
(* one, and by two when its fractional part carries.                       *)
MillisSteps == {1, 2}
(* Milliseconds before nextTick from which the clock is followed step by   *)
(* step.                                                                   *)
MaxLead == 3
(* Milliseconds past nextTick within which loop() is called again. *)
MaxLag == 3
(* Results of rand(). *)
RandValues == {0, RAND_MAX}
(* response_time_ms arguments of the constructor; PInf stands for a value  *)
(* whose quotient by simulation_dt_ms does not fit a long.                 *)
ResponseTimes ==
    {IntToFloat(-100), IntToFloat(0), IntToFloat(30), IntToFloat(50),
     IntToFloat(5000), PInf}
(* Results of the undefined conversion of an out-of-range float to long. *)
UbLongs == {-1, 3}
(* (background, alpha, gamma, sigma) arguments of the constructor. *)
SensorParams ==
    {<<Cents(4), Cents(300), Cents(100), Cents(20)>>,
     <<Cents(33), Cents(75), Cents(200), Cents(1)>>,
     <<Cents(0), Cents(100), Cents(100), Cents(0)>>}
(* real_A arguments of update(). *)
AbsorbanceInputs == {NaN, PInf, F(-FP), F(0), F(FP \div 2), F(3 * FP)}

VARIABLES
    pc,                       \* position: in setup(), between loop() calls, in loop()
    i,                        \* the loop variable of the for loop in progress
    led,                      \* level of PHYSICAL_OUTPUT_PIN (the light source)
    ambient,                  \* reading of the sensor with the light source off
    lit,                      \* reading of the sensor with the light source on
    now,                      \* millis()
    elapsed,                  \* milliseconds since setup() returned
    physical_dark,
    physical_full,
    accumulated_reads_value,
    accumulated_reads_count,
    reads,                    \* the raw reads accumulated since the last drain
    result,                   \* get_and_reset_accumulated_reads(): const float result
    sensors,
    OUTPUT_CALIBRATED_A,      \* build option
    nextTick,
    raw_average,              \* physical_to_A(): the argument of the last call
    real_A,                   \* loop(): const float real_A
    sensor_output,            \* the byte the last update() returned
    simulated_output,         \* update(): the value it converted to that byte
    draws,                    \* the two rand() results the last update() consumed
    rand_next,                \* libc: the state of rand()
    random_next,              \* libc: the state of random()
    updates,                  \* update() calls so far, per sensor
    fifo,                     \* the bounded queue run beside each sensor's array
    fifo_output,              \* the byte the last update over the queue returned
    tx,                       \* bytes written to Serial since the start of the frame
    n_frames                  \* frames completed

hw == <<led, ambient, lit>>
clock == <<now, elapsed>>
calibration == <<physical_dark, physical_full>>
accumulator == <<accumulated_reads_value, accumulated_reads_count, reads, result>>
bank == <<sensors, sensor_output, simulated_output, draws, updates, rand_next,
          fifo, fifo_output>>
(* What nothing writes once setup() has seeded the generator. *)
settled == <<OUTPUT_CALIBRATED_A, random_next>>
absorbance == <<raw_average, real_A>>
serial == <<tx, n_frames>>
vars == <<pc, i, hw, clock, calibration, accumulator, bank, settled,
          nextTick, absorbance, serial>>

n_sensors == Cardinality(DOMAIN sensors)

NEWLINE == 10

(* analogRead(PHYSICAL_SENSOR_PIN) *)
analogRead == IF led = 1 THEN lit ELSE ambient

(* analogRead(PHYSICAL_SENSOR_PIN), cast to float. *)
read_physical_sensor == IntToFloat(analogRead)

(* Arduino randomSeed(seed): if (seed != 0) srandom(seed); the new state   *)
(* of random().                                                            *)
randomSeed(seed) == IF seed # 0 THEN seed ELSE random_next

(* Faulty variant of physical_to_A: the ratio inverted. *)
PhysicalToAInverted(physical_value) ==
    pow(MaxMacro(F(0), FDiv(log10f(FDiv(physical_value, physical_full)),
                            POWER_LAW_CORRECTOR_C)),
        POWER_LAW_CORRECTOR_GAMMA)

(* Faulty variant of physical_to_A: the dark level subtracted from both    *)
(* intensities.                                                            *)
PhysicalToADarkCorrected(physical_value) ==
    pow(MaxMacro(F(0), FDiv(log10f(FDiv(FSub(physical_full, physical_dark),
                                        FSub(physical_value, physical_dark))),
                            POWER_LAW_CORRECTOR_C)),
        POWER_LAW_CORRECTOR_GAMMA)

(* Converts a raw physical sensor reading into calibrated absorbance. *)
physical_to_A(physical_value) ==
    pow(MaxMacro(F(0), FDiv(log10f(FDiv(physical_full, physical_value)),
                            POWER_LAW_CORRECTOR_C)),
        POWER_LAW_CORRECTOR_GAMMA)

(* Faulty variant of accumulate_read_physical_sensor: = in place of +=. *)
AccumulateOverwrite ==
    /\ accumulated_reads_value' = read_physical_sensor
    /\ accumulated_reads_count' = accumulated_reads_count + 1
    /\ reads' = Append(reads, read_physical_sensor)
    /\ result' = result

(* accumulate_read_physical_sensor() *)
accumulate_read_physical_sensor ==
    /\ accumulated_reads_value' = FAdd(accumulated_reads_value, read_physical_sensor)
    /\ accumulated_reads_count' = accumulated_reads_count + 1
    /\ reads' = Append(reads, read_physical_sensor)
    /\ result' = result

(* The value get_and_reset_accumulated_reads() returns. *)
AccumulatedAverage ==
    FDiv(accumulated_reads_value, IntToFloat(accumulated_reads_count))

(* Faulty variant of ResetAccumulated: the accumulator is left as it is. *)
ResetForgotten ==
    /\ result' = AccumulatedAverage
    /\ accumulated_reads_value' = accumulated_reads_value
    /\ accumulated_reads_count' = accumulated_reads_count
    /\ reads' = reads

(* get_and_reset_accumulated_reads(): the result is kept, the accumulation   *)
(* variables are reset.                                                    *)
ResetAccumulated ==
    /\ result' = AccumulatedAverage
    /\ accumulated_reads_value' = F(0)
    /\ accumulated_reads_count' = 0
    /\ reads' = <<>>

(***************************************************************************)
(* Initial state: globals as the C++ start-up code leaves them, the        *)
(* environment's levels and clock as found at power-up.                    *)
(***************************************************************************)
Init ==
    /\ pc = "setup"
    /\ i = 0
    /\ led = 0
    /\ ambient \in AmbientLevels
    /\ lit \in LitLevels
    /\ now \in StartClocks
    /\ elapsed = 0
    /\ physical_dark = F(0)
    /\ physical_full = F(0)
    /\ accumulated_reads_value = F(0)
    /\ accumulated_reads_count = 0
    /\ reads = <<>>
    /\ result = F(0)
    /\ sensors = sensors_table
    /\ OUTPUT_CALIBRATED_A \in BOOLEAN
    /\ nextTick = U32(0, 0)
    /\ raw_average = F(0)
    /\ real_A = F(0)
    /\ sensor_output = 0
    /\ simulated_output = F(0)
    /\ draws = <<0, 0>>
    /\ rand_next = 1
    /\ random_next = 1
    /\ updates = [k \in DOMAIN sensors_table |-> 0]
    /\ fifo = [k \in DOMAIN sensors_table |-> <<>>]
    /\ fifo_output = 0
    /\ tx = <<>>
    /\ n_frames = 0

(***************************************************************************)
(* setup()                                                                 *)
(***************************************************************************)
(* pinMode; randomSeed(analogRead(PHYSICAL_SENSOR_PIN));                   *)
(* digitalWrite(PHYSICAL_OUTPUT_PIN, 0)                                    *)
SetupBegin ==
    /\ pc = "setup"
    /\ random_next' = randomSeed(analogRead)
    /\ led' = 0
    /\ i' = 0
    /\ pc' = "dark"
    /\ UNCHANGED <<ambient, lit, clock, calibration, accumulator, bank,
                   OUTPUT_CALIBRATED_A, nextTick, absorbance, serial>>

(* for (int i = 0; i < 256; i++) accumulate_read_physical_sensor(); *)
SetupRead ==
    /\ pc \in {"dark", "full"}
    /\ i < CalibrationReads
    /\ accumulate_read_physical_sensor
    /\ i' = i + 1
    /\ UNCHANGED <<pc, hw, clock, calibration, bank, settled,
                   nextTick, absorbance, serial>>

(* physical_dark = get_and_reset_accumulated_reads(); digitalWrite(.., 1) *)
SetupDark ==
    /\ pc = "dark"
    /\ ~(i < CalibrationReads)
    /\ physical_dark' = AccumulatedAverage
    /\ ResetAccumulated
    /\ led' = 1
    /\ i' = 0
    /\ pc' = "full"
    /\ UNCHANGED <<ambient, lit, clock, physical_full, bank, settled,
                   nextTick, absorbance, serial>>

(* physical_full = get_and_reset_accumulated_reads(); Serial.begin;        *)
(* nextTick = millis()                                                     *)
SetupFull ==
    /\ pc = "full"
    /\ ~(i < CalibrationReads)
    /\ physical_full' = AccumulatedAverage
    /\ ResetAccumulated
    /\ nextTick' = now
    /\ pc' = "loop"
    /\ UNCHANGED <<i, hw, clock, physical_dark, bank, settled,
                   absorbance, serial>>

(***************************************************************************)
(* The environment between two loop() calls                                *)
(***************************************************************************)
(* The millisecond timer advances. *)
ClockAdvance ==
    /\ pc = "loop"
    /\ \E d \in ClockSteps :
        /\ elapsed + d <= MaxElapsed
        /\ now' = U32Add(now, d)
        /\ elapsed' = elapsed + d
    /\ UNCHANGED <<pc, i, hw, calibration, accumulator, bank, settled,
                   nextTick, absorbance, serial>>

(* The sample in the light path is changed. *)
SampleChange ==
    /\ pc = "loop"
    /\ \E l \in LitLevels \ {lit} : lit' = l
    /\ UNCHANGED <<pc, i, led, ambient, clock, calibration, accumulator, bank,
                   settled, nextTick, absorbance, serial>>

(* Faulty variant of LoopAccumulate: nextTick advanced on every call. *)
LoopAccumulateAdvancing ==
    /\ pc = "loop"
    /\ U32Lt(now, nextTick)
    /\ accumulated_reads_count < MaxReads
    /\ accumulate_read_physical_sensor
    /\ nextTick' = U32Add(nextTick, simulation_dt_ms)
    /\ UNCHANGED <<pc, i, hw, clock, calibration, bank, settled,
                   absorbance, serial>>

(***************************************************************************)
(* loop()                                                                  *)
(***************************************************************************)
(* if (millis() < nextTick) { accumulate_read_physical_sensor(); return; } *)
LoopAccumulate ==
    /\ pc = "loop"
    /\ U32Lt(now, nextTick)
    /\ accumulated_reads_count < MaxReads
    /\ accumulate_read_physical_sensor
    /\ UNCHANGED <<pc, i, hw, clock, calibration, bank, settled,
                   nextTick, absorbance, serial>>

(* Faulty variant of UpdateResult: one memory array shared by all sensors. *)
UpdateResultShared(k, u, r1, r2) ==
    /\ draws' = <<r1, r2>>
    /\ sensor_output' = u.out
    /\ simulated_output' = u.value
    /\ sensors' = [j \in DOMAIN sensors |->
                      [sensors[j] EXCEPT !.memory = u.sensor.memory]]

(* The effect of a call whose result is u on sensors[k] and on the caller's *)
(* sensor_output.                                                          *)
UpdateResult(k, u, r1, r2) ==
    /\ draws' = <<r1, r2>>
    /\ sensor_output' = u.out
    /\ simulated_output' = u.value
    /\ sensors' = [sensors EXCEPT ![k] = u.sensor]

(* sensors[k].update(A) when the two calls of rand() return r1 and r2. *)
UpdateDrawn(k, acc, A, r1, r2) ==
    UpdateResult(k, update(sensors[k], acc, A, r1, r2), r1, r2)

(* sensors[k].update(A) for an A of As, for any two results of rand(). *)
UpdateAny(k, acc, As) ==
    \E A \in As, r1 \in RandValues, r2 \in RandValues :
        UpdateResult(k, update(sensors[k], acc, A, r1, r2), r1, r2)

(* The same call made on the bounded queue of sensors[k], with the draws    *)
(* the call on the array consumed.                                         *)
FifoUpdate(k, A) ==
    LET u == BoundedFifoUpdate(sensors[k], fifo[k], A, draws'[1], draws'[2])
    IN /\ fifo' = [fifo EXCEPT ![k] = u.fifo]
       /\ fifo_output' = u.out

(* Faulty variant of CalibratedBytes: the byte written whatever the option. *)
CalibratedBytesAlways(A) == <<ToByte(A)>>

(* The byte of the calibrated absorbance, when enabled. *)
CalibratedBytes(A) == IF OUTPUT_CALIBRATED_A THEN <<ToByte(A)>> ELSE <<>>

(* nextTick += simulation_dt_ms; real_A = physical_to_A(get_and_reset...);  *)
(* the calibrated byte, if enabled; then the for loop over the sensors.    *)
LoopTick ==
    /\ pc = "loop"
    /\ ~U32Lt(now, nextTick)
    /\ n_frames < MaxFrames
    /\ nextTick' = U32Add(nextTick, simulation_dt_ms)
    /\ raw_average' = AccumulatedAverage
    /\ real_A' = physical_to_A(AccumulatedAverage)
    /\ ResetAccumulated
    /\ tx' = CalibratedBytes(real_A')
    /\ i' = 0
    /\ pc' = "sensors"
    /\ UNCHANGED <<hw, clock, calibration, bank, settled, n_frames>>

(* uint8_t sensor_output = sensors[i].update(real_A);                      *)
(* Serial.write(sensor_output);                                            *)
LoopSensor ==
    /\ pc = "sensors"
    /\ i < n_sensors
    /\ UpdateDrawn(i, Acc(sensors[i]), real_A,
                   RandValue(RandStep(rand_next)),
                   RandValue(RandStep(RandStep(rand_next))))
    /\ FifoUpdate(i, real_A)
    /\ rand_next' = RandStep(RandStep(rand_next))
    /\ updates' = [updates EXCEPT ![i] = updates[i] + 1]
    /\ tx' = Append(tx, sensor_output')
    /\ i' = i + 1
    /\ UNCHANGED <<pc, hw, clock, calibration, accumulator, settled,
                   nextTick, absorbance, n_frames>>

(* Serial.write(OUTPUT_CALIBRATED_A + n_sensors); Serial.write('\n'); *)
LoopFrameEnd ==
    /\ pc = "sensors"
    /\ ~(i < n_sensors)
    /\ tx' = tx \o <<CastUint8((IF OUTPUT_CALIBRATED_A THEN 1 ELSE 0) + n_sensors), NEWLINE>>
    /\ n_frames' = n_frames + 1
    /\ pc' = "loop"
    /\ UNCHANGED <<i, hw, clock, calibration, accumulator, bank, settled,
                   nextTick, absorbance>>

Next ==
    \/ SetupBegin
    \/ SetupRead
    \/ SetupDark
    \/ SetupFull
    \/ ClockAdvance
    \/ SampleChange
    \/ LoopAccumulate
    \/ LoopTick
    \/ LoopSensor
    \/ LoopFrameEnd

Spec == Init /\ [][Next]_vars

(***************************************************************************)
(* One SimulatedSensor, constructed from any arguments and updated with    *)
(* any absorbance: the class on its own, outside setup() and loop().       *)
(***************************************************************************)
SensorInit ==
    /\ pc = "sensor"
    /\ \E rt \in ResponseTimes, p \in SensorParams, ub \in UbLongs :
         sensors = [k \in {0} |-> SimulatedSensor(rt, p[1], p[2], p[3], p[4], ub)]
    /\ updates = [k \in {0} |-> 0]
    /\ fifo = [k \in {0} |-> <<>>]
    /\ fifo_output = 0
    /\ raw_average = F(0)
    /\ real_A = F(0)
    /\ sensor_output = 0
    /\ simulated_output = F(0)
    /\ draws = <<0, 0>>
    /\ rand_next = 1
    /\ random_next = 1
    /\ i = 0
    /\ led = 0
    /\ ambient = 0
    /\ lit = 0
    /\ now = U32(0, 0)
    /\ elapsed = 0
    /\ physical_dark = F(0)
    /\ physical_full = F(0)
    /\ accumulated_reads_value = F(0)
    /\ accumulated_reads_count = 0
    /\ reads = <<>>
    /\ result = F(0)
    /\ OUTPUT_CALIBRATED_A = FALSE
    /\ nextTick = U32(0, 0)
    /\ tx = <<>>
    /\ n_frames = 0

(* sensors[0].update(A) for any A and any two results of rand(). *)
SensorUpdate ==
    /\ pc = "sensor"
    /\ updates[0] < MaxUpdates
    /\ \E A \in AbsorbanceInputs :
        /\ real_A' = A
        /\ UpdateAny(0, Acc(sensors[0]), {A})
        /\ FifoUpdate(0, A)
    /\ rand_next' = rand_next
    /\ updates' = [updates EXCEPT ![0] = updates[0] + 1]
    /\ UNCHANGED <<pc, i, hw, clock, calibration, accumulator, settled,
                   nextTick, raw_average, serial>>

SensorNext == SensorUpdate

SensorSpec == SensorInit /\ [][SensorNext]_vars

(***************************************************************************)
(* The program run without an end: the clock goes on past MaxElapsed and   *)
(* around the wrap of the 32-bit counter.  A stretch in which loop() only  *)
(* accumulates is passed in one step; reads beyond MaxReads are not        *)
(* recorded.                                                               *)
(***************************************************************************)
(* millis() is within MaxLead ms before nextTick. *)
TickNear ==
    /\ U32Lt(now, nextTick)
    /\ U32Diff(now, nextTick).hi = 0
    /\ U32Diff(now, nextTick).lo <= MaxLead

(* millis() is at nextTick or less than MaxLag ms past it. *)
TickDue ==
    /\ ~U32Lt(now, nextTick)
    /\ U32Diff(nextTick, now).hi = 0
    /\ U32Diff(nextTick, now).lo < MaxLag

(* millis() is within MaxLead ms before its wrap. *)
WrapNear == now.hi = HalfWord - 1 /\ now.lo >= HalfWord - MaxLead

(* The clock between two calls of loop(), close to nextTick or to the wrap. *)
ClockTick ==
    /\ pc = "loop"
    /\ TickNear \/ TickDue \/ (~U32Lt(now, nextTick) /\ WrapNear)
    /\ \E d \in MillisSteps :
        /\ now' = U32Add(now, d)
        /\ elapsed' = MinInt(elapsed + d, MaxElapsed)
    /\ UNCHANGED <<pc, i, hw, calibration, accumulator, bank, settled,
                   nextTick, absorbance, serial>>

(* The clock over a stretch of loop() calls that find millis() < nextTick. *)
ClockRunOn ==
    /\ pc = "loop"
    /\ U32Lt(now, nextTick)
    /\ ~TickNear
    /\ now' = U32Diff(U32(0, MaxLead), nextTick)
    /\ elapsed' = MaxElapsed
    /\ UNCHANGED <<pc, i, hw, calibration, accumulator, bank, settled,
                   nextTick, absorbance, serial>>

LiveNext ==
    \/ SetupBegin
    \/ SetupRead
    \/ SetupDark
    \/ SetupFull
    \/ ClockTick
    \/ ClockRunOn
    \/ LoopAccumulate
    \/ LoopTick
    \/ LoopSensor
    \/ LoopFrameEnd

(* The steps of LiveNext by the guard of their action and the part of the  *)
(* state that only that action changes so.                                 *)
(* SetupBegin, SetupRead, SetupDark or SetupFull: a step of setup(). *)
SetupStep ==
    /\ pc \in {"setup", "dark", "full"}
    /\ \/ pc' = pc /\ i' = i + 1
       \/ \E p \in {"dark", "full", "loop"} \ {pc}, j \in {0, i} :
             pc' = p /\ i' = j

(* LoopAccumulate *)
AccumulateStep ==
    /\ pc = "loop"
    /\ U32Lt(now, nextTick)
    /\ accumulated_reads_count < MaxReads
    /\ accumulated_reads_count' = accumulated_reads_count + 1

(* LoopTick *)
TickStep ==
    /\ pc = "loop"
    /\ ~U32Lt(now, nextTick)
    /\ n_frames < MaxFrames
    /\ pc' = "sensors"

(* LoopSensor or LoopFrameEnd: the rest of the loop() call that ticked. *)
FrameStep ==
    /\ pc = "sensors"
    /\ \/ pc' = pc /\ i' = i + 1
       \/ pc' = "loop" /\ i' = i

(* main() calls setup() and then loop() without end, and the timer         *)
(* interrupt keeps millis() advancing.  A call of loop() that finds        *)
(* millis() >= nextTick is granted whenever that is the case again and     *)
(* again.                                                                  *)
LiveFairness ==
    /\ WF_<<pc, i>>(SetupStep)
    /\ WF_vars(ClockTick \/ ClockRunOn)
    /\ WF_accumulated_reads_count(AccumulateStep)
    /\ SF_pc(TickStep)
    /\ WF_<<pc, i>>(FrameStep)

LiveSpec == Init /\ [][LiveNext]_vars /\ LiveFairness

(***************************************************************************)
(* One noiseless sensor without background, constructed with an all-zero   *)
(* history and then updated with one and the same absorbance.              *)
(***************************************************************************)
(* Response times giving memory_size 1, 2 and MAX_MEMORY_SIZE. *)
StepResponseTimes == {IntToFloat(30), IntToFloat(50), IntToFloat(5000)}
(* (alpha, gamma) arguments of the constructor. *)
StepParams ==
    {<<Cents(100), Cents(100)>>, <<Cents(75), Cents(200)>>,
     <<Cents(300), Cents(100)>>, <<Cents(-100), Cents(100)>>}
(* The finite absorbances A >= 0 of the step. *)
StepInputs == {F(0), F(FP \div 2), F(FP), F((3 * FP) \div 2), F(3 * FP)}

StepInit ==
    /\ pc = "step"
    /\ \E rt \in StepResponseTimes, p \in StepParams :
         sensors = [k \in {0} |-> SimulatedSensor(rt, F(0), p[1], p[2], F(0), 0)]
    /\ real_A \in StepInputs
    /\ updates = [k \in {0} |-> 0]
    /\ fifo = [k \in {0} |-> <<>>]
    /\ fifo_output = 0
    /\ raw_average = F(0)
    /\ sensor_output = 0
    /\ simulated_output = F(0)
    /\ draws = <<0, 0>>
    /\ rand_next = 1
    /\ random_next = 1
    /\ i = 0
    /\ led = 0
    /\ ambient = 0
    /\ lit = 0
    /\ now = U32(0, 0)
    /\ elapsed = 0
    /\ physical_dark = F(0)
    /\ physical_full = F(0)
    /\ accumulated_reads_value = F(0)
    /\ accumulated_reads_count = 0
    /\ reads = <<>>
    /\ result = F(0)
    /\ OUTPUT_CALIBRATED_A = FALSE
    /\ nextTick = U32(0, 0)
    /\ tx = <<>>
    /\ n_frames = 0

(* sensors[0].update(real_A), for any two results of rand(). *)
StepUpdate ==
    /\ pc = "step"
    /\ updates[0] < MaxSteps
    /\ UpdateAny(0, Acc(sensors[0]), {real_A})
    /\ FifoUpdate(0, real_A)
    /\ rand_next' = rand_next
    /\ updates' = [updates EXCEPT ![0] = updates[0] + 1]
    /\ UNCHANGED <<pc, i, hw, clock, calibration, accumulator, settled,
                   nextTick, absorbance, serial>>

StepNext == StepUpdate

StepSpec == StepInit /\ [][StepNext]_vars

(***************************************************************************)
(* The sample accumulator on its own: any readings added, drained at any   *)
(* time.                                                                   *)
(***************************************************************************)
AccInit ==
    /\ pc = "accumulator"
    /\ led = 1
    /\ lit \in Readings
    /\ ambient = 0
    /\ accumulated_reads_value = F(0)
    /\ accumulated_reads_count = 0
    /\ reads = <<>>
    /\ result = F(0)
    /\ sensors = sensors_table
    /\ updates = [k \in DOMAIN sensors_table |-> 0]
    /\ fifo = [k \in DOMAIN sensors_table |-> <<>>]
    /\ fifo_output = 0
    /\ raw_average = F(0)
    /\ real_A = F(0)
    /\ sensor_output = 0
    /\ simulated_output = F(0)
    /\ draws = <<0, 0>>
    /\ rand_next = 1
    /\ random_next = 1
    /\ i = 0
    /\ now = U32(0, 0)
    /\ elapsed = 0
    /\ physical_dark = F(0)
    /\ physical_full = F(0)
    /\ OUTPUT_CALIBRATED_A = FALSE
    /\ nextTick = U32(0, 0)
    /\ tx = <<>>
    /\ n_frames = 0

(* The level at the sensor changes between two reads. *)
AccSample ==
    /\ pc = "accumulator"
    /\ \E l \in Readings \ {lit} : lit' = l
    /\ UNCHANGED <<pc, i, led, ambient, clock, calibration, accumulator, bank,
                   settled, nextTick, absorbance, serial>>

(* accumulate_read_physical_sensor(); *)
AccAdd ==
    /\ pc = "accumulator"
    /\ accumulated_reads_count < MaxAdds
    /\ accumulate_read_physical_sensor
    /\ UNCHANGED <<pc, i, hw, clock, calibration, bank, settled,
                   nextTick, absorbance, serial>>

(* get_and_reset_accumulated_reads(); *)
AccDrain ==
    /\ pc = "accumulator"
    /\ ResetAccumulated
    /\ UNCHANGED <<pc, i, hw, clock, calibration, bank, settled,
                   nextTick, absorbance, serial>>

AccNext == AccSample \/ AccAdd \/ AccDrain

AccumulatorSpec == AccInit /\ [][AccNext]_vars

(***************************************************************************)
(* physical_to_A on its own: any calibration levels, any raw average of    *)
(* the valid operating range.                                              *)
(***************************************************************************)
CalInit ==
    /\ pc = "calibrate"
    /\ physical_dark \in DarkLevels
    /\ physical_full \in FullLevels
    /\ raw_average = F(0)
    /\ real_A = F(0)
    /\ led = 1
    /\ lit = 0
    /\ ambient = 0
    /\ accumulated_reads_value = F(0)
    /\ accumulated_reads_count = 0
    /\ reads = <<>>
    /\ result = F(0)
    /\ sensors = sensors_table
    /\ updates = [k \in DOMAIN sensors_table |-> 0]
    /\ fifo = [k \in DOMAIN sensors_table |-> <<>>]
    /\ fifo_output = 0
    /\ sensor_output = 0
    /\ simulated_output = F(0)
    /\ draws = <<0, 0>>
    /\ rand_next = 1
    /\ random_next = 1
    /\ i = 0
    /\ now = U32(0, 0)
    /\ elapsed = 0
    /\ OUTPUT_CALIBRATED_A = FALSE
    /\ nextTick = U32(0, 0)
    /\ tx = <<>>
    /\ n_frames = 0

(* real_A = physical_to_A(x) for any raw average x. *)
CalCall ==
    /\ pc = "calibrate"
    /\ \E x \in RawAverages :
        /\ raw_average' = x
        /\ real_A' = physical_to_A(x)
    /\ UNCHANGED <<pc, i, hw, clock, calibration, accumulator, bank,
                   settled, nextTick, serial>>

(* physical_dark = ...: the dark level takes another value. *)
CalDark ==
    /\ pc = "calibrate"
    /\ \E d \in DarkLevels \ {physical_dark} : physical_dark' = d
    /\ UNCHANGED <<pc, i, hw, clock, physical_full, accumulator, bank,
                   settled, nextTick, absorbance, serial>>

CalNext == CalCall \/ CalDark

CalibrateSpec == CalInit /\ [][CalNext]_vars

(***************************************************************************)
(* Claims                                                                  *)
(***************************************************************************)
(* A step that calls get_and_reset_accumulated_reads(). *)
Drain == SetupDark \/ SetupFull \/ LoopTick

(* C1: get_and_reset_accumulated_reads() is never called with              *)
(* accumulated_reads_count == 0: at least one read is accumulated before   *)
(* every drain.                                                            *)
C1_DrainNeverEmpty == [][Drain => accumulated_reads_count >= 1]_vars

(* C2: the absorbance physical_to_A returns, for every raw average passed  *)
(* to it (the value drained from the accumulator included), is finite and  *)
(* >= 0: never NaN, never infinite, never negative.                        *)
C2_AbsorbanceFiniteNonNegative == IsFin(real_A) /\ real_A.v >= 0

(* A step that is a call of update() on some sensor. *)
IsUpdateStep == updates' # updates

(* Some sensor has been updated. *)
Updated == \E k \in DOMAIN updates : updates[k] >= 1

(* The byte out is the saturating conversion of the value x. *)
Saturates(x, out) ==
    /\ out \in 0 .. UINT8_MAX
    /\ FGe(x, IntToFloat(MAX_A)) => out = UINT8_MAX
    /\ FGe(F(0), x) => out = 0

(* C3: every byte update() returns is in [0, 255] and obtained by          *)
(* saturation: exactly 255 when the smoothed, floored, noise-added value   *)
(* is >= MAX_A, exactly 0 when it is <= 0.                                 *)
C3_SaturatedByte == Updated => Saturates(simulated_output, sensor_output)

C3_Witness ==
    /\ pc = "sensor"
    /\ updates[0] >= 2
    /\ sensors[0].memory_size = 0
    /\ real_A = F(3 * FP)
    /\ FGe(simulated_output, IntToFloat(MAX_A))
    /\ IsFin(simulated_output)
    /\ sensor_output = UINT8_MAX

(* The memory slots an update() reads or writes. *)
AccessedSlots(s) ==
    SumSlots(s) \cup ShiftSlots(s) \cup {k + 1 : k \in ShiftSlots(s)}
        \cup (IF s.memory_size >= 1 THEN {s.memory_size - 1} ELSE {})

(* C4: 0 <= memory_size <= MAX_MEMORY_SIZE for every response_time_ms;     *)
(* update() reads and writes only slots below memory_size, and the slots   *)
(* at or above memory_size keep their initial value 0.                     *)
C4_MemoryBound ==
    \A k \in DOMAIN sensors :
        /\ sensors[k].memory_size \in 0 .. MAX_MEMORY_SIZE
        /\ AccessedSlots(sensors[k]) \subseteq 0 .. sensors[k].memory_size - 1
        /\ AccessedSlots(sensors[k]) \subseteq DOMAIN sensors[k].memory
        /\ \A j \in DOMAIN sensors[k].memory :
              j >= sensors[k].memory_size => sensors[k].memory[j] = 0

C4_Witness ==
    /\ pc = "sensor"
    /\ updates[0] = MaxUpdates
    /\ sensors[0].memory_size = MAX_MEMORY_SIZE
    /\ sensors[0].memory[MAX_MEMORY_SIZE - 1] # 0
    /\ sensors[0].memory[MAX_MEMORY_SIZE - 2] # 0

(* C5: with memory_size >= 1 an update() drops memory[0], moves every      *)
(* other entry one slot toward index 0 and stores the byte it returns in   *)
(* memory[memory_size-1].                                                  *)
C5_Fifo ==
    [][(IsUpdateStep /\ sensors[0].memory_size >= 1) =>
        /\ \A j \in 0 .. sensors[0].memory_size - 2 :
              sensors'[0].memory[j] = sensors[0].memory[j + 1]
        /\ sensors'[0].memory[sensors[0].memory_size - 1] = sensor_output']_vars

C5_Witness ==
    /\ pc = "sensor"
    /\ updates[0] = 3
    /\ sensors[0].memory_size = 2
    /\ sensors[0].memory[0] # sensors[0].memory[1]
    /\ sensors[0].memory[0] # 0
    /\ sensors[0].memory[1] = sensor_output

(* |x| on floats. *)
FAbs(x) == IF FLt(x, F(0)) THEN FNeg(x) ELSE x

(* quantize(max(alpha * A^gamma, background) + |noise|) for the draw r. *)
ZeroMemoryFormula(s, A, r) ==
    ToByte(FAdd(Floored(s, BaseValue(s, A)), FAbs(uniform(s.sigma, r))))

(* C6: with memory_size == 0, update() returns                             *)
(* quantize(max(alpha * A^gamma, background) + |noise|) of the current     *)
(* absorbance and noise draw only, and leaves the memory array unchanged.  *)
C6_ZeroMemoryStateless ==
    [][(IsUpdateStep /\ sensors[0].memory_size = 0) =>
        /\ \E r \in {draws'[1], draws'[2]} :
              sensor_output' = ZeroMemoryFormula(sensors[0], real_A', r)
        /\ sensors' = sensors]_vars

(* 1 if the calibrated byte is enabled, else 0. *)
CalibratedCount == IF OUTPUT_CALIBRATED_A THEN 1 ELSE 0

C8_NewlineOnlyEndsFrame ==
    \A k \in 1 .. Len(tx) :
        tx[k] = NEWLINE => (k = Len(tx) /\ pc = "loop" /\ n_frames >= 1)

(* C9: on every tick each sensor is updated exactly once, in array index   *)
(* order, all with the same real_A, and the bytes are written in that      *)
(* order; updating sensor i neither reads nor changes another sensor.      *)
C9_BankState ==
    /\ pc = "sensors" =>
          /\ i \in 0 .. n_sensors
          /\ Len(tx) = CalibratedCount + i
          /\ \A k \in DOMAIN sensors :
                updates[k] = n_frames + (IF k < i THEN 1 ELSE 0)
    /\ pc = "loop" => \A k \in DOMAIN sensors : updates[k] = n_frames

(* after and out are the sensor and the byte that update(A) on the sensor   *)
(* before gives, computed from that sensor alone.                          *)
UpdateOf(before, A, r1, r2, after, out) ==
    /\ out = ToByte(Noised(before, Acc(before), A, r1, r2))
    /\ after = [before EXCEPT !.memory = ShiftMemory(before, out)]

C9_BankStep ==
    IsUpdateStep =>
        /\ pc = "sensors"
        /\ updates' = [updates EXCEPT ![i] = updates[i] + 1]
        /\ i' = i + 1
        /\ real_A' = real_A
        /\ \A j \in DOMAIN sensors : j # i => sensors'[j] = sensors[j]
        /\ UpdateOf(sensors[i], real_A, draws'[1], draws'[2], sensors'[i], sensor_output')
        /\ tx' = Append(tx, sensor_output')

C9_EachSensorOncePerTick == []C9_BankState /\ [][C9_BankStep]_vars

C9_Witness ==
    /\ pc = "loop"
    /\ n_frames = 2
    /\ IsFin(real_A)
    /\ \A k \in DOMAIN sensors : updates[k] = 2
    /\ tx[CalibratedCount + 2] = sensors[1].memory[sensors[1].memory_size - 1]
    /\ tx[CalibratedCount + 4] = sensors[3].memory[sensors[3].memory_size - 1]
    /\ tx[CalibratedCount + 2] # tx[CalibratedCount + 4]
    /\ tx[CalibratedCount + 1] # tx[CalibratedCount + 3]

(* C10: setup() switches the light off, accumulates exactly 256 reads and  *)
(* stores their average as physical_dark; then switches the light on,      *)
(* accumulates exactly 256 further reads and stores their average as       *)
(* physical_full; no read with the light off contributes to physical_full; *)
(* no sensor is updated and no byte written before both are set; after     *)
(* setup() neither is written again.                                       *)
InSetup == pc \in {"setup", "dark", "full"}

C10_SetupState ==
    /\ InSetup =>
          /\ tx = <<>>
          /\ n_frames = 0
          /\ sensors = sensors_table
          /\ \A k \in DOMAIN sensors : updates[k] = 0
    /\ pc = "dark" =>
          /\ led = 0
          /\ i \in 0 .. CalibrationReads
          /\ accumulated_reads_count = i
          /\ accumulated_reads_value = IntToFloat(i * ambient)
    /\ pc = "full" =>
          /\ led = 1
          /\ i \in 0 .. CalibrationReads
          /\ accumulated_reads_count = i
          /\ accumulated_reads_value = IntToFloat(i * lit)
          /\ physical_dark = IntToFloat(ambient)
    /\ ~InSetup => physical_dark = IntToFloat(ambient)

C10_SetupStep ==
    /\ physical_dark' # physical_dark =>
          /\ pc = "dark" /\ pc' = "full"
          /\ led = 0 /\ led' = 1
          /\ accumulated_reads_count = CalibrationReads
          /\ physical_dark' = IntToFloat(ambient)
    /\ physical_full' # physical_full =>
          /\ pc = "full" /\ pc' = "loop"
          /\ led = 1
          /\ accumulated_reads_count = CalibrationReads
          /\ physical_full' = IntToFloat(lit)
    /\ (pc = "full" /\ pc' = "loop") =>
          /\ accumulated_reads_count = CalibrationReads
          /\ physical_full' = IntToFloat(lit)
    /\ ~InSetup =>
          /\ pc' \notin {"setup", "dark", "full"}
          /\ physical_dark' = physical_dark
          /\ physical_full' = physical_full

C10_CalibrationProtocol == []C10_SetupState /\ [][C10_SetupStep]_vars

C10_Witness ==
    /\ pc = "loop"
    /\ n_frames = 1
    /\ physical_dark = IntToFloat(4)
    /\ physical_full = IntToFloat(900)
    /\ lit = 740

(* The sum of a sequence of floats. *)
RECURSIVE SumSeq(_)
SumSeq(q) == IF q = <<>> THEN F(0) ELSE FAdd(q[1], SumSeq(Tail(q)))

(* C11: after k >= 1 adds of readings r1..rk since the last drain,         *)
(* get_and_reset_accumulated_reads returns (r1+...+rk)/k and leaves the    *)
(* accumulator empty; a later cycle depends only on the readings added     *)
(* after the previous drain.                                               *)
C11_AccumulatorState ==
    /\ accumulated_reads_count = Len(reads)
    /\ accumulated_reads_value = SumSeq(reads)

C11_DrainStep ==
    (accumulated_reads_count >= 1 /\ accumulated_reads_count' = 0) =>
        /\ result' = FDiv(SumSeq(reads), IntToFloat(Len(reads)))
        /\ accumulated_reads_value' = F(0)
        /\ reads' = <<>>

C11_AccumulatorRoundTrip == []C11_AccumulatorState /\ [][C11_DrainStep]_vars

C11_Witness ==
    /\ pc = "accumulator"
    /\ result = IntToFloat(4)
    /\ reads = <<IntToFloat(10)>>
    /\ accumulated_reads_value = IntToFloat(10)
    /\ accumulated_reads_count = 1

(* C12: for sigma >= 0 and every rand() in [0, RAND_MAX], uniform(sigma)   *)
(* lies in [-sigma, +sigma], with rand() == 0 giving -sigma and            *)
(* rand() == RAND_MAX giving +sigma.                                       *)
C12_UniformRange ==
    Updated =>
        \A j \in 1 .. 2 :
            /\ FGe(uniform(sensors[0].sigma, draws[j]), FNeg(sensors[0].sigma))
            /\ FGe(sensors[0].sigma, uniform(sensors[0].sigma, draws[j]))
            /\ draws[j] = 0 =>
                  uniform(sensors[0].sigma, draws[j]) = FNeg(sensors[0].sigma)
            /\ draws[j] = RAND_MAX =>
                  uniform(sensors[0].sigma, draws[j]) = sensors[0].sigma

(* pow(real_A, gamma) * alpha of the sensor s. *)
Response(s, A) == FMul(pow(A, s.gamma), s.alpha)

FramesBegun == n_frames + (IF pc = "sensors" THEN 1 ELSE 0)

(* C14: the k-th frame after setup is emitted no earlier than              *)
(* t0 + k * simulation_dt_ms, whatever the value of the wrapping           *)
(* millisecond clock: within an elapsed time T no more than                *)
(* floor(T / simulation_dt_ms) + 1 frames are emitted.                     *)
C14_FramePacing == FramesBegun <= elapsed \div simulation_dt_ms + 1

(* C15: for fixed physical_full > 0, physical_to_A is non-increasing over  *)
(* the valid operating range 0 < x <= 1023, and is 0 for every             *)
(* x >= physical_full.                                                     *)
C15_NonIncreasing ==
    raw_average \in RawAverages =>
        /\ \A x1 \in RawAverages :
              FGe(raw_average, x1) => FGe(physical_to_A(x1), real_A)
        /\ FGe(raw_average, physical_full) => real_A = F(0)

C15_Witness ==
    /\ pc = "calibrate"
    /\ physical_full = IntToFloat(900)
    /\ raw_average = IntToFloat(300)
    /\ FGt(real_A, F(0))
    /\ FGt(physical_to_A(IntToFloat(5)), real_A)
    /\ physical_to_A(IntToFloat(1023)) = F(0)

(* C16: the value physical_to_A returns depends only on its argument,      *)
(* physical_full and the corrector constants: the absorbance returned for  *)
(* a raw average under one value of physical_dark is the absorbance        *)
(* returned for it under every other value of physical_dark.               *)
C16_DarkLevelUnused ==
    raw_average \in RawAverages => real_A = physical_to_A(raw_average)

C16_Witness ==
    /\ pc = "calibrate"
    /\ physical_dark = IntToFloat(50)
    /\ physical_full = IntToFloat(900)
    /\ raw_average = IntToFloat(300)
    /\ real_A = physical_to_A(IntToFloat(300))
    /\ FGt(real_A, F(0))

(* The state of the generator n draws after the state x. *)
RECURSIVE RandAfter(_, _)
RandAfter(x, n) == IF n = 0 THEN x ELSE RandAfter(RandStep(x), n - 1)

(* Calls of rand() so far: two per update(). *)
RECURSIVE SumUpdates(_)
SumUpdates(S) ==
    IF S = {} THEN 0
    ELSE LET k == CHOOSE j \in S : TRUE IN updates[k] + SumUpdates(S \ {k})

(* C17: the stream uniform() draws from is seeded exactly once, in setup() *)
(* and before the first draw, from the analog reading: the noise sequence  *)
(* is the one that follows that seed, so different seed readings give      *)
(* different sequences.                                                    *)
C17_NoiseStreamSeeded ==
    (pc \in {"dark", "full", "loop", "sensors"} /\ ambient # 0) =>
        rand_next = RandAfter(ambient, 2 * SumUpdates(DOMAIN updates))

(* C18: every loop() iteration either (a), the clock being before          *)
(* nextTick, adds exactly one raw read, writes no byte, updates no sensor  *)
(* and leaves nextTick unchanged, or (b) advances nextTick by              *)
(* simulation_dt_ms, drains the accumulator once, updates every sensor     *)
(* and writes one complete frame, adding no raw read.                      *)
C18_AddBranch ==
    /\ U32Lt(now, nextTick)
    /\ pc' = "loop"
    /\ accumulated_reads_count' = accumulated_reads_count + 1
    /\ reads' = Append(reads, read_physical_sensor)
    /\ UNCHANGED <<nextTick, tx, n_frames, sensors, updates, absorbance>>

C18_TickBranch ==
    /\ ~U32Lt(now, nextTick)
    /\ pc' = "sensors"
    /\ nextTick' = U32Add(nextTick, simulation_dt_ms)
    /\ accumulated_reads_count' = 0
    /\ accumulated_reads_value' = F(0)
    /\ reads' = <<>>

C18_LoopStep ==
    /\ (pc = "loop" /\ <<accumulator, nextTick, serial, bank, pc>>'
                          # <<accumulator, nextTick, serial, bank, pc>>) =>
          (C18_AddBranch \/ C18_TickBranch)
    /\ pc = "sensors" =>
          /\ UNCHANGED <<accumulator, nextTick>>
          /\ accumulated_reads_count = 0
    /\ (pc = "sensors" /\ pc' = "loop") =>
          /\ n_frames' = n_frames + 1
          /\ \A k \in DOMAIN sensors : updates[k] = n_frames + 1
          /\ Len(tx') = CalibratedCount + n_sensors + 2
          /\ tx'[Len(tx')] = NEWLINE

C18_OneBranchPerIteration == [][C18_LoopStep]_vars

C18_Witness ==
    /\ pc = "sensors"
    /\ n_frames = 1
    /\ i = 2
    /\ reads = <<>>
    /\ accumulated_reads_count = 0
    /\ raw_average = IntToFloat(740)
    /\ nextTick = U32(0, 2 * simulation_dt_ms)

(* The sum of memory[k] / to_byte over the stored history of s, taken      *)
(* byte value by byte value.                                               *)
RECURSIVE HistorySum(_, _)
HistorySum(s, B) ==
    IF B = {} THEN F(0)
    ELSE LET b == CHOOSE x \in B : TRUE
             n == Cardinality({k \in 0 .. s.memory_size - 1 : s.memory[k] = b})
         IN FAdd(F(n * FDiv(IntToFloat(b), to_byte).v), HistorySum(s, B \ {b}))

(* (sum over i < n of memory[i] / to_byte + alpha * A^gamma) / (n + 1) *)
HistoryAverage(s, A) ==
    FDiv(FAdd(HistorySum(s, {s.memory[k] : k \in 0 .. s.memory_size - 1}),
              Response(s, A)),
         IntToFloat(s.memory_size + 1))

(* The value update() converts to a byte when the smoothed value is x. *)
FromSmoothed(s, x, r1, r2) ==
    FAdd(IF FLt(x, s.background) THEN s.background ELSE x,
         AbsUniform(s.sigma, r1, r2))

(* C19: with memory_size = n >= 1 the smoothed value update() computes     *)
(* before the floor is (sum over i < n of memory[i] / to_byte              *)
(* + alpha * A^gamma) / (n + 1).                                           *)
C19_SmoothedAverage ==
    [][(IsUpdateStep /\ sensors[0].memory_size >= 1) =>
        simulated_output' =
            FromSmoothed(sensors[0], HistoryAverage(sensors[0], real_A'),
                         draws'[1], draws'[2])]_vars

C19_Witness ==
    /\ pc = "sensor"
    /\ updates[0] = 3
    /\ sensors[0].memory_size = 2
    /\ sensors[0].memory[0] # 0
    /\ real_A = F(FP \div 2)
    /\ IsFin(simulated_output)
    /\ FGt(simulated_output, FAdd(sensors[0].background, sensors[0].sigma))

(* round(min(background * to_byte, 255)) *)
QuantizedFloor(s) ==
    RoundMacro(MinMacro(FMul(s.background, to_byte), IntToFloat(UINT8_MAX)), 0)

(* C20: for background >= 0 every byte update() returns is >= the          *)
(* quantized floor round(min(background * to_byte, 255)).                  *)
C20_BackgroundIsMinimum ==
    (Updated /\ FGe(sensors[0].background, F(0))) =>
        sensor_output >= QuantizedFloor(sensors[0])

(* The n most recent entries of the array of s, oldest first. *)
MostRecent(s, n) == [j \in 1 .. n |-> s.memory[s.memory_size - n + j - 1]]

(* The number of entries a queue of capacity n holds after u pushes. *)
Held(n, u) == IF n >= 1 THEN MinInt(u, n) ELSE 0

(* C21: run beside the zero-initialised shifted array on the same          *)
(* absorbances and draws, a bounded FIFO that starts empty, is summed and  *)
(* divided by memory_size + 1 and drops its oldest entry only when full    *)
(* returns the same byte on every update, and its stored entries are the   *)
(* most recent entries of the array.                                       *)
C21_BoundedFifoEquivalent ==
    /\ fifo_output = sensor_output
    /\ \A k \in DOMAIN sensors :
          /\ Len(fifo[k]) = Held(sensors[k].memory_size, updates[k])
          /\ fifo[k] = MostRecent(sensors[k], Len(fifo[k]))

C21_Witness ==
    /\ pc = "sensor"
    /\ updates[0] = 3
    /\ sensors[0].memory_size = 2
    /\ Len(fifo[0]) = 2
    /\ fifo[0][1] # fifo[0][2]
    /\ fifo[0][1] > 0
    /\ fifo_output = fifo[0][2]

(* round(min(alpha * A^gamma * to_byte, 255)) *)
UnfilteredRounded(s, A) ==
    RoundMacro(MinMacro(FMul(Response(s, A), to_byte), IntToFloat(UINT8_MAX)), 0)

(* C22 as stated: with memory_size >= 1, sigma == 0, background == 0, an    *)
(* all-zero history and the same finite A >= 0 on every update, the        *)
(* returned bytes are non-decreasing and none exceeds                      *)
(* round(min(alpha * A^gamma * to_byte, 255)).                             *)
C22_StepResponseAsStated ==
    [][IsUpdateStep =>
        /\ sensor_output' >= sensor_output
        /\ sensor_output' <= UnfilteredRounded(sensors[0], real_A)]_vars

(* C22: under the same conditions the returned bytes are non-decreasing    *)
(* and none exceeds round(max(0, min(alpha * A^gamma * to_byte, 255))),    *)
(* the byte the response gives without smoothing.                          *)
C22_StepResponse ==
    [][IsUpdateStep =>
        /\ sensors[0].memory_size >= 1
        /\ sensor_output' >= sensor_output
        /\ sensor_output' <= ToByte(Response(sensors[0], real_A))]_vars

C22_Witness ==
    /\ pc = "step"
    /\ updates[0] = 4
    /\ sensors[0].memory_size = 2
    /\ sensors[0].memory[0] > 0
    /\ sensors[0].memory[1] > sensors[0].memory[0]
    /\ sensor_output = sensors[0].memory[1]
    /\ sensor_output < ToByte(Response(sensors[0], real_A))

(* C23: frames keep coming: with loop() called again and again and the     *)
(* clock advancing, from every state after setup(), the states after a     *)
(* wrap of the clock or of nextTick included, a further frame is           *)
(* eventually written.                                                     *)
C23_FramesKeepComing ==
    \A f \in 0 .. MaxFrames - 1 :
        (pc = "loop" /\ n_frames = f) ~> (n_frames = f + 1)

=============================================================================
